---- MODULE Spec2Model ----
(***************************************************************************)
(* Model of sdboyer/constext: a context built from two parent contexts.    *)
(*                                                                         *)
(* Three variants of the constructor live in the repository:               *)
(*   "cons"  - Cons  in src/constext.go           (package constext)       *)
(*   "union" - Union in src/coalext.go            (package coalext)        *)
(*   "hist"  - Cons  in src/unnamed/part_000      (earlier constext)       *)
(* They share the node layout and the cancel method; they differ in the    *)
(* fast-path test, in the trigger returned on the fast path, in Deadline   *)
(* and in whether a deadline timer is armed.                               *)
(*                                                                         *)
(* The parents are contexts of the standard library: a parent is either    *)
(* never cancelable (Done() is nil) or cancelable; a cancelable parent     *)
(* sets its error and closes its channel in one step.                      *)
(***************************************************************************)
EXTENDS Integers, FiniteSets, Sequences, TLC

\* ---------------------------------------------------------------- bounds
MaxTime == 2

\* ------------------------------------------------------------- constants
Nil == "nil"
Canceled == "context.Canceled"
DeadlineExceeded == "context.DeadlineExceeded"
Errors == {Canceled, DeadlineExceeded}

Variants == {"cons", "union", "hist"}
Parents == {1, 2}
NoDeadline == [t |-> 0, ok |-> FALSE]
Deadlines == {NoDeadline} \cup {[t |-> d, ok |-> TRUE] : d \in 1..MaxTime}

Ctor == <<"ctor", 0>>
Watcher == <<"watcher", 0>>
Timer == <<"timer", 0>>
\* Two goroutines that hold the CancelFunc and may call it concurrently.
Callers == {<<"caller", 1>>, <<"caller", 2>>}
Threads == {Ctor, Watcher, Timer} \cup Callers
Free == <<"free", 0>>

VARIABLES
    variant,    \* which constructor builds the node
    pCanc,      \* pCanc[i]: parent i has a non-nil Done() channel
    pErr,       \* pErr[i]: parent i's Err(); non-nil iff its channel is closed
    pDl,        \* pDl[i]: parent i's Deadline() as the pair (t, ok)
    pVal,       \* pVal[i]: the key-value content of parent i, as a tree
    firstFired, \* history: the parent whose channel was closed first, or 0
    now,        \* time.Now()
    done,       \* node.done: "nil", "open" or "closed"
    err,        \* node.err
    timer,      \* node.timer: "nil" or "set"
    timerAt,    \* the pending AfterFunc callback, as (t, ok)
    mu,         \* node.mu: Free or the thread holding it
    pc,         \* pc[t]: position of thread t
    arg,        \* arg[t]: the err argument of thread t's cancel call
    trigger,    \* the CancelFunc returned: "none", "noop" or "cancel"
    panicked,   \* "none" or the message of a panic raised on the node
    child,      \* a context derived from the node by context.WithCancel
    childErr,   \* the child's Err()
    dlSeen,     \* what the node's Deadline() returned when last called
    errSeen,    \* what the node's Err() returned when last called
    valSeen,    \* the key and result of the last Value(key) call on the node
    triggered,  \* history: the CancelFunc has been called
    entryErr,   \* history: the error of the first terminal parent, left
                \* before right, when the constructor was entered
    ret         \* history: the return site of the constructor, and
                \* whether both parents were live there

vars == <<variant, pCanc, pErr, pDl, pVal, firstFired, now, done, err, timer,
          timerAt, mu, pc, arg, trigger, panicked, child, childErr, dlSeen,
          errSeen, valSeen, triggered, entryErr, ret>>

parentVars == <<pCanc, pErr, pDl, pVal, firstFired>>
nodeVars == <<done, err, timer, timerAt, mu>>
obsVars == <<dlSeen, errSeen, valSeen>>
histVars == <<obsVars, triggered, entryErr, ret>>
childVars == <<child, childErr>>

AllNil == [i \in Parents |-> Nil]

\* ---------------------------------------------------------------- Value
\* The key-value content of a context: context.Background(), a
\* context.WithValue(context.Background(), k, v), or a pair built by Cons.
Keys == {"foo", "bar"}
Vals == {"bar", "baz"}
Background == <<"bg">>
WithValue(k, v) == <<"value", k, v>>
Pair(l, r) == <<"cons", l, r>>
Leaves == {Background} \cup {WithValue(k, v) : k \in Keys, v \in Vals}
Contents == Leaves \cup {Pair(l, r) : l, r \in Leaves}

RECURSIVE ValueOfBug(_, _)
ValueOfBug(c, key) ==
    IF c[1] = "bg" THEN Nil
    ELSE IF c[1] = "value" THEN (IF c[2] = key THEN c[3] ELSE Nil)
    ELSE LET v == ValueOfBug(c[3], key)
         IN  IF v # Nil THEN v ELSE ValueOfBug(c[2], key)

\* c.Value(key): nil for Background, the value of a matching WithValue, and
\* for a pair  v := cc.car.Value(key); if v != nil { return v };
\* return cc.cdr.Value(key)
RECURSIVE ValueOf(_, _)
ValueOf(c, key) ==
    IF c[1] = "bg" THEN Nil
    ELSE IF c[1] = "value" THEN (IF c[2] = key THEN c[3] ELSE Nil)
    ELSE LET v == ValueOf(c[2], key)
         IN  IF v # Nil THEN v ELSE ValueOf(c[3], key)

\* ------------------------------------------------------------- Deadline
Before(a, b) == a < b

ConsDeadlineBug(h, t) ==
    IF ~h.ok /\ ~t.ok THEN NoDeadline
    ELSE IF h.ok /\ ~t.ok THEN h
    ELSE IF ~h.ok /\ t.ok THEN t
    ELSE IF Before(t.t, h.t) THEN h ELSE t

\* constext.Deadline, src/constext.go:100-118
ConsDeadline(h, t) ==
    IF ~h.ok /\ ~t.ok THEN NoDeadline
    ELSE IF h.ok /\ ~t.ok THEN h
    ELSE IF ~h.ok /\ t.ok THEN t
    ELSE IF Before(h.t, t.t) THEN h ELSE t

\* unionCtx.Deadline, src/coalext.go:82-87
UnionDeadline(h, t) == IF h.ok THEN h ELSE t

\* constext.Deadline, src/unnamed/part_000:82-100
HistDeadline(h, t) ==
    IF ~h.ok /\ ~t.ok THEN NoDeadline
    ELSE IF h.ok /\ ~t.ok THEN h
    ELSE IF ~h.ok /\ t.ok THEN t
    ELSE IF Before(h.t, t.t) THEN h ELSE t

Deadline ==
    CASE variant = "cons" -> ConsDeadline(pDl[1], pDl[2])
      [] variant = "union" -> UnionDeadline(pDl[1], pDl[2])
      [] variant = "hist" -> HistDeadline(pDl[1], pDl[2])

\* ------------------------------------------------------------ fast path
\* src/constext.go:42   cc.car.Done() == nil && cc.cdr.Done() == nil
ConsFastPath == ~pCanc[1] /\ ~pCanc[2]

\* src/coalext.go:26    uc.head.Done() == nil && uc.head.Done() == nil
UnionFastPath == ~pCanc[1] /\ ~pCanc[1]

\* src/unnamed/part_000:26   cc.car.Done() == nil && cc.car.Done() == nil
HistFastPath == ~pCanc[1] /\ ~pCanc[1]

FastPath ==
    CASE variant = "cons" -> ConsFastPath
      [] variant = "union" -> UnionFastPath
      [] variant = "hist" -> HistFastPath

ConsFastTriggerBug == "cancel"

\* src/constext.go:45   return cc, func() {}
ConsFastTrigger == "noop"

\* src/coalext.go:27    return uc, func() { uc.cancel(context.Canceled) }
UnionFastTrigger == "cancel"

\* src/unnamed/part_000:27
HistFastTrigger == "cancel"

FastTrigger ==
    CASE variant = "cons" -> ConsFastTrigger
      [] variant = "union" -> UnionFastTrigger
      [] variant = "hist" -> HistFastTrigger

\* src/constext.go:60-67 arms no timer; src/coalext.go:48 and
\* src/unnamed/part_000:48 call time.AfterFunc
ArmsTimer == variant \in {"union", "hist"}

\* ----------------------------------------------------------------- Init
\* The state before the constructor is called, the parents and their
\* key-value content apart.
InitNode ==
    /\ variant \in Variants
    /\ pErr = AllNil
    /\ firstFired = 0
    /\ now = 0
    /\ done = "nil"
    /\ err = Nil
    /\ timer = "nil"
    /\ timerAt = NoDeadline
    /\ mu = Free
    /\ pc = [t \in Threads |->
               IF t = Ctor THEN "start"
               ELSE IF t \in Callers THEN "idle" ELSE "none"]
    /\ arg = [t \in Threads |-> Nil]
    /\ trigger = "none"
    /\ panicked = "none"
    /\ child = "none"
    /\ childErr = Nil
    /\ dlSeen = [called |-> FALSE, dl |-> NoDeadline]
    /\ errSeen = Nil
    /\ valSeen = [called |-> FALSE, key |-> Nil, val |-> Nil]
    /\ triggered = FALSE
    /\ entryErr = Nil
    /\ ret = [site |-> "none", live |-> FALSE]

\* Parents of every kind: cancelable or not, with a deadline or not (only a
\* cancelable context has one); both carry no values.
Init ==
    /\ InitNode
    /\ pCanc \in [Parents -> BOOLEAN]
    /\ pDl \in [Parents -> Deadlines]
    /\ \A i \in Parents : pDl[i].ok => pCanc[i]
    /\ pVal = [i \in Parents |-> Background]

\* ---------------------------------------------------- the parent contexts
\* A cancelable parent is canceled by its own CancelFunc (cancel1() in
\* TestConsCancel).
ParentCancel(i, e) ==
    /\ pCanc[i]
    /\ pErr[i] = Nil
    /\ pErr' = [pErr EXCEPT ![i] = e]
    /\ firstFired' = IF firstFired = 0 THEN i ELSE firstFired
    /\ UNCHANGED <<variant, pCanc, pDl, pVal, now, nodeVars, pc, arg, trigger,
                   panicked, childVars, histVars>>

\* A parent with a deadline terminates itself once the deadline has passed;
\* its timer runs asynchronously, so it may lag behind the clock.
ParentTimeout(i) ==
    /\ pCanc[i]
    /\ pDl[i].ok
    /\ pDl[i].t <= now
    /\ pErr[i] = Nil
    /\ pErr' = [pErr EXCEPT ![i] = DeadlineExceeded]
    /\ firstFired' = IF firstFired = 0 THEN i ELSE firstFired
    /\ UNCHANGED <<variant, pCanc, pDl, pVal, now, nodeVars, pc, arg, trigger,
                   panicked, childVars, histVars>>

Tick ==
    /\ now < MaxTime
    /\ now' = now + 1
    /\ UNCHANGED <<variant, parentVars, nodeVars, pc, arg, trigger, panicked,
                   childVars, histVars>>

\* ------------------------------------------------------- the constructor
Return(site) == [site |-> site, live |-> pErr = AllNil]

\* Allocation of the node and the fast-path test.
ConsStart ==
    /\ pc[Ctor] = "start"
    /\ entryErr' = IF pErr[1] # Nil THEN pErr[1] ELSE pErr[2]
    /\ IF FastPath
       THEN /\ trigger' = FastTrigger
            /\ pc' = [pc EXCEPT ![Ctor] = "returned"]
            /\ ret' = Return("fast")
            /\ done' = done
       ELSE /\ done' = "open"
            /\ pc' = [pc EXCEPT ![Ctor] = "chkCar"]
            /\ UNCHANGED <<trigger, ret>>
    /\ UNCHANGED <<obsVars, variant, parentVars, now, err, timer, timerAt, mu, arg,
                   panicked, childVars, triggered>>

\* if cc.car.Err() != nil { cc.err = cc.car.Err(); return ... }
ConsCheckCar ==
    /\ pc[Ctor] = "chkCar"
    /\ IF pErr[1] # Nil
       THEN /\ err' = pErr[1]
            /\ trigger' = "cancel"
            /\ pc' = [pc EXCEPT ![Ctor] = "returned"]
            /\ ret' = Return("car")
       ELSE /\ pc' = [pc EXCEPT ![Ctor] = "chkCdr"]
            /\ UNCHANGED <<err, trigger, ret>>
    /\ UNCHANGED <<obsVars, variant, parentVars, now, done, timer, timerAt, mu, arg,
                   panicked, childVars, triggered, entryErr>>

\* if cc.cdr.Err() != nil { cc.err = cc.cdr.Err(); return ... }
ConsCheckCdr ==
    /\ pc[Ctor] = "chkCdr"
    /\ IF pErr[2] # Nil
       THEN /\ err' = pErr[2]
            /\ trigger' = "cancel"
            /\ pc' = [pc EXCEPT ![Ctor] = "returned"]
            /\ ret' = Return("cdr")
       ELSE /\ pc' = [pc EXCEPT ![Ctor] = "chkDl"]
            /\ UNCHANGED <<err, trigger, ret>>
    /\ UNCHANGED <<obsVars, variant, parentVars, now, done, timer, timerAt, mu, arg,
                   panicked, childVars, triggered, entryErr>>

\* if dl, ok := cc.Deadline(); ok { d := dl.Sub(time.Now()); if d <= 0 {
\*   cc.cancel(context.DeadlineExceeded); return ... }
\*   [Union, historical Cons:] time.AfterFunc(d, ...) }
ConsCheckDeadline ==
    /\ pc[Ctor] = "chkDl"
    /\ LET dl == Deadline IN
       IF dl.ok /\ dl.t - now <= 0
       THEN /\ pc' = [pc EXCEPT ![Ctor] = "cancel"]
            /\ arg' = [arg EXCEPT ![Ctor] = DeadlineExceeded]
            /\ UNCHANGED timerAt
       ELSE IF dl.ok /\ ArmsTimer
       THEN /\ timerAt' = dl
            /\ pc' = [pc EXCEPT ![Ctor] = "setTimer"]
            /\ UNCHANGED arg
       ELSE /\ pc' = [pc EXCEPT ![Ctor] = "spawn"]
            /\ UNCHANGED <<arg, timerAt>>
    /\ UNCHANGED <<variant, parentVars, now, done, err, timer, mu, trigger,
                   panicked, childVars, histVars>>

\* uc.timer = <the handle returned by time.AfterFunc>: a plain store, made
\* by the constructor without the mutex after the callback is scheduled.
ConsSetTimer ==
    /\ pc[Ctor] = "setTimer"
    /\ timer' = "set"
    /\ pc' = [pc EXCEPT ![Ctor] = "spawn"]
    /\ UNCHANGED <<variant, parentVars, now, done, err, timerAt, mu, arg,
                   trigger, panicked, childVars, histVars>>

\* a constructor that starts the watcher only while both parents are live
ConsSpawnBug ==
    /\ pc[Ctor] = "spawn"
    /\ pc' = [pc EXCEPT ![Ctor] = "returned",
                        ![Watcher] = IF pErr = AllNil THEN "select" ELSE "exit"]
    /\ trigger' = "cancel"
    /\ ret' = Return("watch")
    /\ UNCHANGED <<obsVars, variant, parentVars, now, nodeVars, arg, panicked,
                   childVars, triggered, entryErr>>

\* go func() { select ... }(); return cc, func() { cc.cancel(Canceled) }
ConsSpawn ==
    /\ pc[Ctor] = "spawn"
    /\ pc' = [pc EXCEPT ![Ctor] = "returned", ![Watcher] = "select"]
    /\ trigger' = "cancel"
    /\ ret' = Return("watch")
    /\ UNCHANGED <<obsVars, variant, parentVars, now, nodeVars, arg, panicked,
                   childVars, triggered, entryErr>>

\* --------------------------------------------------------------- cancel
\* Where a thread continues once its cancel call has returned.
After(t) ==
    IF t = Ctor THEN "returned"
    ELSE IF t \in Callers THEN "idle"
    ELSE "exit"

\* if err == nil { panic(...) }; cc.mu.Lock()
CancelEnter(t) ==
    /\ pc[t] = "cancel"
    /\ IF arg[t] = Nil
       THEN /\ panicked' = "missing cancel error"
            /\ pc' = [pc EXCEPT ![t] = "panicked"]
            /\ UNCHANGED <<mu, trigger, ret>>
       ELSE /\ mu = Free
            /\ mu' = t
            /\ pc' = [pc EXCEPT ![t] = "locked"]
            /\ UNCHANGED <<panicked, trigger, ret>>
    /\ UNCHANGED <<obsVars, variant, parentVars, now, done, err, timer, timerAt, arg,
                   childVars, triggered, entryErr>>

NodeLive == err = Nil

\* cancel without its "if cc.err == nil" test
CancelCheckBug(t) ==
    /\ pc[t] = "locked"
    /\ err' = arg[t]
    /\ pc' = [pc EXCEPT ![t] = "close"]
    /\ UNCHANGED <<variant, parentVars, now, done, timer, timerAt, mu, arg,
                   trigger, panicked, childVars, histVars>>

\* if cc.err == nil { cc.err = err ...
CancelCheck(t) ==
    /\ pc[t] = "locked"
    /\ IF NodeLive
       THEN /\ err' = arg[t]
            /\ pc' = [pc EXCEPT ![t] = "close"]
       ELSE /\ pc' = [pc EXCEPT ![t] = "unlock"]
            /\ UNCHANGED err
    /\ UNCHANGED <<variant, parentVars, now, done, timer, timerAt, mu, arg,
                   trigger, panicked, childVars, histVars>>

\* a cancel that also terminates the left parent
CancelCloseBug(t) ==
    /\ pc[t] = "close"
    /\ done = "open"
    /\ done' = "closed"
    /\ IF timer # "nil"
       THEN timer' = "nil" /\ timerAt' = NoDeadline
       ELSE UNCHANGED <<timer, timerAt>>
    /\ pc' = [pc EXCEPT ![t] = "unlock"]
    /\ pErr' = [pErr EXCEPT ![1] = IF pErr[1] = Nil THEN err ELSE pErr[1]]
    /\ UNCHANGED <<variant, pCanc, pDl, pVal, firstFired, now, err, mu, arg,
                   trigger, panicked, childVars, histVars>>

\* ... close(cc.done); if cc.timer != nil { cc.timer.Stop(); cc.timer = nil }
\* close panics on a nil channel and on a closed channel; the panicking
\* thread never reaches cc.mu.Unlock().
CancelClose(t) ==
    /\ pc[t] = "close"
    /\ IF done = "open"
       THEN /\ done' = "closed"
            /\ IF timer # "nil"
               THEN timer' = "nil" /\ timerAt' = NoDeadline
               ELSE UNCHANGED <<timer, timerAt>>
            /\ pc' = [pc EXCEPT ![t] = "unlock"]
            /\ UNCHANGED panicked
       ELSE /\ panicked' = IF done = "nil" THEN "close of nil channel"
                           ELSE "close of closed channel"
            /\ pc' = [pc EXCEPT ![t] = "panicked"]
            /\ UNCHANGED <<done, timer, timerAt>>
    /\ UNCHANGED <<variant, parentVars, now, err, mu, arg, trigger, childVars, histVars>>

\* cc.mu.Unlock(); for the constructor, the return that follows.
CancelUnlock(t) ==
    /\ pc[t] = "unlock"
    /\ mu' = Free
    /\ pc' = [pc EXCEPT ![t] = After(t)]
    /\ arg' = [arg EXCEPT ![t] = Nil]
    /\ IF t = Ctor
       THEN trigger' = "cancel" /\ ret' = Return("expired")
       ELSE UNCHANGED <<trigger, ret>>
    /\ UNCHANGED <<obsVars, variant, parentVars, now, done, err, timer, timerAt,
                   panicked, childVars, triggered, entryErr>>

\* ---------------------------------------------------- watcher and timer
\* a watcher whose second case forwards cc.car.Err() as well
WatcherSelectBug(i) ==
    /\ pc[Watcher] = "select"
    /\ pCanc[i]
    /\ pErr[i] # Nil
    /\ pc' = [pc EXCEPT ![Watcher] = "cancel"]
    /\ arg' = [arg EXCEPT ![Watcher] = pErr[1]]
    /\ UNCHANGED <<variant, parentVars, now, nodeVars, trigger, panicked,
                   childVars, histVars>>

\* select { case <-cc.car.Done(): cc.cancel(cc.car.Err())
\*          case <-cc.cdr.Done(): cc.cancel(cc.cdr.Err()) }
\* A receive from a nil channel never proceeds; when both are ready the
\* runtime picks either.
WatcherSelect(i) ==
    /\ pc[Watcher] = "select"
    /\ pCanc[i]
    /\ pErr[i] # Nil
    /\ pc' = [pc EXCEPT ![Watcher] = "cancel"]
    /\ arg' = [arg EXCEPT ![Watcher] = pErr[i]]
    /\ UNCHANGED <<variant, parentVars, now, nodeVars, trigger, panicked,
                   childVars, histVars>>

\* The AfterFunc callback: func() { uc.cancel(context.DeadlineExceeded) }
TimerFire ==
    /\ timerAt.ok
    /\ timerAt.t <= now
    /\ pc[Timer] = "none"
    /\ timerAt' = NoDeadline
    /\ pc' = [pc EXCEPT ![Timer] = "cancel"]
    /\ arg' = [arg EXCEPT ![Timer] = DeadlineExceeded]
    /\ UNCHANGED <<variant, parentVars, now, done, err, timer, mu, trigger,
                   panicked, childVars, histVars>>

\* ------------------------------------------------------ the CancelFunc
\* func() {}  or  func() { cc.cancel(context.Canceled) }
TriggerCall(c) ==
    /\ pc[Ctor] = "returned"
    /\ pc[c] = "idle"
    /\ triggered' = TRUE
    /\ IF trigger = "cancel"
       THEN /\ pc' = [pc EXCEPT ![c] = "cancel"]
            /\ arg' = [arg EXCEPT ![c] = Canceled]
       ELSE UNCHANGED <<pc, arg>>
    /\ UNCHANGED <<obsVars, variant, parentVars, now, nodeVars, trigger, panicked,
                   childVars, entryErr, ret>>

\* ------------------------------------------------------------ accessors
\* A caller invokes Deadline() on the node.
DeadlineCall ==
    /\ pc[Ctor] = "returned"
    /\ dlSeen' = [called |-> TRUE, dl |-> Deadline]
    /\ UNCHANGED <<errSeen, valSeen, variant, parentVars, now, nodeVars, pc, arg, trigger,
                   panicked, childVars, triggered, entryErr, ret>>

\* A caller invokes Err() on the node: cc.mu.Lock(); defer cc.mu.Unlock();
\* return cc.err.  The call waits while another thread holds the mutex.
ErrCall ==
    /\ pc[Ctor] = "returned"
    /\ mu = Free
    /\ errSeen' = err
    /\ UNCHANGED <<dlSeen, valSeen, variant, parentVars, now, nodeVars, pc,
                   arg, trigger, panicked, childVars, triggered, entryErr, ret>>

\* A caller invokes Value(key) on the node:
\* v := cc.car.Value(key); if v != nil { return v }; return cc.cdr.Value(key)
ValueCall(key) ==
    /\ pc[Ctor] = "returned"
    /\ valSeen' = [called |-> TRUE, key |-> key,
                   val |-> ValueOf(Pair(pVal[1], pVal[2]), key)]
    /\ UNCHANGED <<dlSeen, errSeen, variant, parentVars, now, nodeVars, pc,
                   arg, trigger, panicked, childVars, triggered, entryErr, ret>>

\* ------------------------------------------------------------ the child
\* c3, _ := context.WithCancel(uc): the standard library reads uc.Done();
\* a nil channel means the child is never canceled by uc; a closed channel
\* cancels the child at once; otherwise a goroutine waits on uc.Done().
DeriveChild ==
    /\ pc[Ctor] = "returned"
    /\ child = "none"
    /\ child' = IF done = "closed" THEN "sawDone" ELSE "live"
    /\ UNCHANGED <<variant, parentVars, now, nodeVars, pc, arg, trigger,
                   panicked, childErr, histVars>>

\* case <-parent.Done():
ChildWatch ==
    /\ child = "live"
    /\ done = "closed"
    /\ child' = "sawDone"
    /\ UNCHANGED <<variant, parentVars, now, nodeVars, pc, arg, trigger,
                   panicked, childErr, histVars>>

\* child.cancel(parent.Err()): Err() takes the node's mutex.
ChildCancel ==
    /\ child = "sawDone"
    /\ mu = Free
    /\ child' = "canceled"
    /\ childErr' = err
    /\ UNCHANGED <<variant, parentVars, now, nodeVars, pc, arg, trigger,
                   panicked, histVars>>

\* ------------------------------------------------------- specification
Env ==
    \/ \E i \in Parents : ParentCancel(i, Canceled)
    \/ \E i \in Parents : ParentTimeout(i)
    \/ Tick

Construct ==
    \/ ConsStart
    \/ ConsCheckCar
    \/ ConsCheckCdr
    \/ ConsCheckDeadline
    \/ ConsSetTimer
    \/ ConsSpawn

CancelStep(t) ==
    \/ CancelCheck(t)
    \/ CancelClose(t)
    \/ CancelUnlock(t)

Next ==
    \/ Env
    \/ Construct
    \/ \E t \in Threads : CancelEnter(t)
    \/ \E t \in Threads : CancelStep(t)
    \/ \E i \in Parents : WatcherSelect(i)
    \/ TimerFire
    \/ \E c \in Callers : TriggerCall(c)
    \/ DeriveChild
    \/ ChildWatch
    \/ ChildCancel

Spec == Init /\ [][Next]_vars

\* Cons of src/constext.go alone: it arms no timer, so the timer actions
\* are not part of its behaviour.
InitCons == Init /\ variant = "cons"

NextCons ==
    \/ Env
    \/ ConsStart
    \/ ConsCheckCar
    \/ ConsCheckCdr
    \/ ConsCheckDeadline
    \/ ConsSpawn
    \/ \E t \in Threads : CancelEnter(t)
    \/ \E t \in Threads : CancelStep(t)
    \/ \E i \in Parents : WatcherSelect(i)
    \/ \E c \in Callers : TriggerCall(c)
    \/ DeriveChild
    \/ ChildWatch
    \/ ChildCancel

SpecCons == InitCons /\ [][NextCons]_vars

\* The node with its watcher and timer, and a caller of Deadline().
NextDeadline ==
    \/ Env
    \/ Construct
    \/ \E t \in Threads : CancelEnter(t)
    \/ \E t \in Threads : CancelStep(t)
    \/ \E i \in Parents : WatcherSelect(i)
    \/ TimerFire
    \/ DeadlineCall

SpecDeadline == Init /\ [][NextDeadline]_vars

\* Goroutines that can run do run; sync.Mutex hands the lock to a waiter
\* that keeps asking for it (starvation mode).  The parents, the clock and
\* the callers of the CancelFunc are under no obligation.
Fairness ==
    /\ WF_vars(Construct)
    /\ \A t \in Threads : SF_vars(CancelEnter(t))
    /\ \A t \in Threads : WF_vars(CancelStep(t))
    /\ WF_vars(\E i \in Parents : WatcherSelect(i))
    /\ WF_vars(TimerFire)
    /\ WF_vars(ChildWatch)
    /\ SF_vars(ChildCancel)

\* Every canceller of a node racing with the others (the CancelFunc, the
\* watcher, the timer callback, the constructor) and a reader of Err().
NextRace ==
    \/ Env
    \/ Construct
    \/ \E t \in Threads : CancelEnter(t)
    \/ \E t \in Threads : CancelStep(t)
    \/ \E i \in Parents : WatcherSelect(i)
    \/ TimerFire
    \/ \E c \in Callers : TriggerCall(c)
    \/ ErrCall

SpecRace == Init /\ [][NextRace]_vars

\* Value lookups on a node built by Cons from two cancelable parents whose
\* key-value content is a leaf or a pair of leaves, at any point of the
\* node's life.
InitValue ==
    /\ InitNode
    /\ variant = "cons"
    /\ pCanc = [i \in Parents |-> TRUE]
    /\ pDl = [i \in Parents |-> NoDeadline]
    /\ pVal \in [Parents -> Contents]

NextValue ==
    \/ \E i \in Parents : ParentCancel(i, Canceled)
    \/ ConsStart
    \/ ConsCheckCar
    \/ ConsCheckCdr
    \/ ConsCheckDeadline
    \/ ConsSpawn
    \/ \E t \in Threads : CancelEnter(t)
    \/ \E t \in Threads : CancelStep(t)
    \/ \E i \in Parents : WatcherSelect(i)
    \/ \E key \in Keys : ValueCall(key)

SpecValue == InitValue /\ [][NextValue]_vars

\* Cons of src/constext.go whose CancelFunc is never called: the node can
\* only be terminated by its constructor or by its watcher.
NextWatch ==
    \/ Env
    \/ ConsStart
    \/ ConsCheckCar
    \/ ConsCheckCdr
    \/ ConsCheckDeadline
    \/ ConsSpawn
    \/ \E t \in Threads : CancelEnter(t)
    \/ \E t \in Threads : CancelStep(t)
    \/ \E i \in Parents : WatcherSelect(i)
    \/ DeriveChild
    \/ ChildWatch
    \/ ChildCancel

FairWatch == InitCons /\ [][NextWatch]_vars /\ Fairness

TypeOK ==
    /\ variant \in Variants
    /\ pErr \in [Parents -> Errors \cup {Nil}]
    /\ done \in {"nil", "open", "closed"}
    /\ err \in Errors \cup {Nil}
    /\ timer \in {"nil", "set"}
    /\ mu \in Threads \cup {Free}
    /\ now \in 0..MaxTime

\* =============================================================== claims
Built == pc[Ctor] = "returned"

OtherParent(i) == IF i = 1 THEN 2 ELSE 1

OnlyCanceled(i) == pErr[i] # Nil /\ pErr[OtherParent(i)] = Nil

\* The node and any child derived from it have terminated with parent i's
\* error, and Err() returns (the mutex is free).
TerminalWith(i) ==
    /\ done = "closed"
    /\ err = pErr[i]
    /\ mu = Free
    /\ child # "none" => (child = "canceled" /\ childErr = pErr[i])

C1_Pre(i) ==
    /\ variant = "cons"
    /\ Built
    /\ ret.live
    /\ OnlyCanceled(i)
    /\ ~triggered

C1_Escape(i) == pErr[OtherParent(i)] # Nil \/ triggered

\* C1 as stated: for a node built by Cons while both parents are live, once
\* exactly one parent i is canceled, and as long as the other parent stays
\* live and the trigger is not called, the node and any child eventually
\* have Done() closed and Err() equal to parent i's error.
C1_Original ==
    \A i \in Parents : C1_Pre(i) ~> (TerminalWith(i) \/ C1_Escape(i))

\* C1 amended: the same, for a node whose effective deadline had not already
\* passed when Cons looked at it (Cons did not return through the
\* DeadlineExceeded branch).
C1_Amended ==
    \A i \in Parents :
        (C1_Pre(i) /\ ret.site # "expired") ~> (TerminalWith(i) \/ C1_Escape(i))

C1_Witness ==
    /\ C1_Pre(2)
    /\ ret.site = "watch"
    /\ TerminalWith(2)
    /\ child = "canceled"

\* C2 as stated: if a parent is already terminal when Cons or Union is
\* called and at least one parent is cancelable, the node returned has that
\* parent's error (the left one's when both are terminal) and no watcher.
C2_Claim ==
    (/\ variant \in {"cons", "union"}
     /\ Built
     /\ entryErr # Nil
     /\ pCanc[1] \/ pCanc[2])
    => (err = entryErr /\ pc[Watcher] = "none")

\* C3 as stated: whenever no thread is inside cancel's critical section,
\* Err() is non-nil exactly when the Done() channel is closed.
C3_Claim ==
    (Built /\ mu = Free) => (err # Nil <=> done = "closed")

\* C4 as stated: a child derived from a node whose Err() is already non-nil
\* is canceled at once (the derivation sees the closed Done() channel).
C4_Claim ==
    [][(child = "none" /\ child' # "none" /\ err # Nil /\ mu = Free)
         => child' = "sawDone"]_vars

Min(a, b) == IF a <= b THEN a ELSE b

\* C5: Deadline() of a node built by Cons (src/constext.go) returns no
\* deadline when neither parent has one, the only one when one parent has
\* one, and the earlier when both have one, whatever the node's cancel
\* state is when it is called.
C5_Deadline ==
    (variant = "cons" /\ dlSeen.called) =>
        LET h == pDl[1]
            t == pDl[2]
            d == dlSeen.dl
        IN  /\ (~h.ok /\ ~t.ok) => ~d.ok
            /\ (h.ok /\ ~t.ok) => d = h
            /\ (~h.ok /\ t.ok) => d = t
            /\ (h.ok /\ t.ok) => (d.ok /\ d.t = Min(h.t, t.t))

C5_Witness ==
    /\ variant = "cons"
    /\ dlSeen.called
    /\ pDl[1].ok /\ pDl[2].ok /\ pDl[2].t < pDl[1].t
    /\ dlSeen.dl = pDl[2]
    /\ err # Nil
    /\ done = "closed"

\* C6 as stated: Deadline() of a node built by Union whose parents both
\* have a deadline returns the earlier one.
C6_Claim ==
    (variant = "union" /\ dlSeen.called /\ pDl[1].ok /\ pDl[2].ok)
    => (dlSeen.dl.ok /\ dlSeen.dl.t = Min(pDl[1].t, pDl[2].t))

C7_Inv ==
    /\ panicked = "none"
    /\ \A c \in Callers :
          pc[c] = "close" => (err = Canceled /\ done = "open")

C7_Step ==
    /\ \A c \in Callers :
          /\ (pc[c] = "locked" /\ pc'[c] # "locked" /\ err = Nil /\ done = "open")
                => err' = Canceled
          /\ (pc[c] = "close" /\ pc'[c] # "close")
                => (done' = "closed" /\ pc'[c] = "unlock")
    /\ err # Nil => err' = err
    /\ done = "closed" => done' = "closed"

\* C7: for a node built by Cons (src/constext.go), a trigger call that finds
\* the node live with a done channel records context.Canceled and closes
\* Done(); no trigger call panics; and once an error is recorded or Done()
\* is closed, no later call by any thread changes either.
C7_TriggerIdempotent ==
    [](variant = "cons" => C7_Inv) /\ [][variant = "cons" => C7_Step]_vars

C7_Witness ==
    /\ variant = "cons"
    /\ err = Canceled
    /\ done = "closed"
    /\ pErr = AllNil
    /\ pc[<<"caller", 1>>] = "idle"
    /\ pc[<<"caller", 2>>] = "locked"

\* C8: a node built by Cons (src/constext.go) from two parents whose Done()
\* is nil has a nil Done() and a nil Err() for ever; calls of its trigger
\* do nothing: they do not panic, take no lock and terminate no child.
C8_NoopTrigger ==
    (variant = "cons" /\ ~pCanc[1] /\ ~pCanc[2]) =>
        /\ done = "nil"
        /\ err = Nil
        /\ panicked = "none"
        /\ mu = Free
        /\ child \in {"none", "live"}

C8_Witness ==
    /\ variant = "cons"
    /\ ~pCanc[1] /\ ~pCanc[2]
    /\ Built
    /\ triggered
    /\ child = "live"

\* C9 as stated: when Union returns a node without a done channel, calling
\* the trigger does not panic, leaves Err() nil, and leaves the mutex free
\* once the call is over.
C9_Claim ==
    (variant = "union" /\ Built /\ done = "nil") =>
        /\ panicked = "none"
        /\ mu = Free => err = Nil
        /\ (\A c \in Callers : pc[c] \in {"idle", "panicked"}) => mu = Free

\* C10 as stated: Union and the historical Cons return a node without a done
\* channel only when neither parent is cancelable.
C10_Claim ==
    (variant \in {"union", "hist"} /\ Built /\ done = "nil")
    => (~pCanc[1] /\ ~pCanc[2])

\* C11: in every interleaving of the trigger, the watcher, the timer and
\* the constructor, the node's error is written at most once: a non-nil err
\* never changes, and once Err() has returned a non-nil error every later
\* Err() call returns the same one.
C11_ErrWrittenOnce ==
    [][/\ err # Nil => err' = err
       /\ errSeen # Nil => errSeen' = errSeen]_vars

\* The timer won; a trigger call and the watcher, which forwards a parent's
\* Canceled, lost, and Err() has been read.
C11_Witness ==
    /\ variant = "union"
    /\ err = DeadlineExceeded
    /\ errSeen = DeadlineExceeded
    /\ pErr[1] = Canceled /\ pErr[2] = Nil
    /\ pc[Timer] = "exit"
    /\ pc[Watcher] = "unlock"
    /\ \E c \in Callers : pc[c] = "cancel"

\* The leaves of a content tree, from left to right.
RECURSIVE LeavesOf(_)
LeavesOf(c) ==
    IF c[1] = "cons" THEN LeavesOf(c[2]) \o LeavesOf(c[3]) ELSE <<c>>

Defines(leaf, key) == leaf[1] = "value" /\ leaf[2] = key

\* The value of the leftmost leaf that defines key, or nil.
LeftmostValue(c, key) ==
    LET ls == LeavesOf(c)
        hits == {n \in 1..Len(ls) : Defines(ls[n], key)}
    IN  IF hits = {} THEN Nil
        ELSE ls[CHOOSE n \in hits : \A m \in hits : n <= m][3]

\* C12: Value(key) on a combined context returns the value of the leftmost
\* leaf of the whole tree of parents that defines key (the left parent's
\* when it has one, otherwise the right parent's, recursively through
\* nested pairs), or nil; a Value call leaves the cancel state as it is.
C12_ValueLeftBiased ==
    /\ [](valSeen.called =>
            valSeen.val = LeftmostValue(Pair(pVal[1], pVal[2]), valSeen.key))
    /\ [][valSeen' # valSeen => UNCHANGED <<nodeVars, pc, arg, panicked>>]_vars

C12_Witness ==
    /\ pVal[1] = Pair(WithValue("foo", "bar"), WithValue("bar", "baz"))
    /\ pVal[2] = WithValue("bar", "bar")
    /\ valSeen = [called |-> TRUE, key |-> "bar", val |-> "baz"]
    /\ err # Nil
    /\ done = "closed"

\* C13: no operation on the node changes a parent.  A step that changes
\* anything of the node, of its threads, of its child or of what the
\* accessors returned leaves each parent's Done()-ness, Err(), Deadline() and
\* values as they were; a parent changes only by its own lifecycle, from
\* live to terminal, in a step that touches nothing of the node.
C13_ParentsUntouched ==
    [][/\ (<<nodeVars, pc, arg, trigger, panicked, childVars, histVars>>'
             # <<nodeVars, pc, arg, trigger, panicked, childVars, histVars>>)
          => UNCHANGED <<pCanc, pErr, pDl, pVal>>
       /\ \A i \in Parents : pErr[i] # Nil => pErr'[i] = pErr[i]]_vars

\* The node was terminated by its trigger and a child by the node, while
\* both parents, one of them cancelable, are still live.
C13_Witness ==
    /\ Built
    /\ err = Canceled
    /\ done = "closed"
    /\ triggered
    /\ child = "canceled"
    /\ pCanc[1]
    /\ pErr = AllNil

\* Cons of src/constext.go with its watcher and the callers of its
\* CancelFunc, under fair scheduling.
NextTrigger ==
    \/ Env
    \/ ConsStart
    \/ ConsCheckCar
    \/ ConsCheckCdr
    \/ ConsCheckDeadline
    \/ ConsSpawn
    \/ \E t \in Threads : CancelEnter(t)
    \/ \E t \in Threads : CancelStep(t)
    \/ \E i \in Parents : WatcherSelect(i)
    \/ \E c \in Callers : TriggerCall(c)

FairTrigger == InitCons /\ [][NextTrigger]_vars /\ Fairness

\* C14 as stated: once the node is terminal, whatever terminated it, a
\* watcher that was started eventually exits.
C14_Claim ==
    (err # Nil /\ pc[Watcher] # "none") ~> pc[Watcher] = "exit"

\* NextWatch without the scheduling assumptions, for its safety properties.
SpecWatch == InitCons /\ [][NextWatch]_vars

\* Both parents were live when Cons returned with a watcher, both have been
\* canceled since with different errors, and the node is terminal.
C15_Pre ==
    /\ ret.site = "watch"
    /\ ret.live
    /\ pErr[1] # Nil
    /\ pErr[2] # Nil
    /\ pErr[1] # pErr[2]
    /\ err # Nil
    /\ ~triggered

\* C15 as stated: the node's terminal error is the error of the parent that
\* was canceled first, in every scheduling of the watcher.
C15_Original == C15_Pre => err = pErr[firstFired]

\* C15, amended: the node's terminal error is the error of one of the
\* canceled parents; the watcher's select takes the error of a parent that
\* has fired, hence the first one's whenever it runs while only that parent
\* has fired, and that error is the one the watcher records.
C15_Amended ==
    /\ [](C15_Pre => \E i \in Parents : err = pErr[i])
    /\ [][(pc[Watcher] = "select" /\ pc'[Watcher] = "cancel")
            => /\ \E i \in Parents : pErr[i] # Nil /\ arg'[Watcher] = pErr[i]
               /\ \A i \in Parents :
                     OnlyCanceled(i) => i = firstFired /\ arg'[Watcher] = pErr[i]]_vars
    /\ [][(pc[Watcher] = "locked" /\ pc'[Watcher] # "locked" /\ err = Nil)
            => (err' = arg[Watcher] /\ err' # Nil)]_vars

\* The watcher was scheduled after both parents had fired and forwarded the
\* error of the one that fired second.
C15_Witness ==
    /\ C15_Pre
    /\ firstFired = 1
    /\ err = pErr[2]
    /\ done = "closed"
    /\ pc[Watcher] = "exit"

\* C16 as stated: in every interleaving of trigger calls, watcher
\* forwarding, timer firing and construction-time termination, close is
\* never applied to a nil or to an already closed done channel.
C16_Claim ==
    panicked \notin {"close of nil channel", "close of closed channel"}

\* Neither parent is terminal, at least one is cancelable, and the node's
\* deadline is at or before the current time.
C17_Pre ==
    /\ pErr = AllNil
    /\ \E i \in Parents : pCanc[i]
    /\ Deadline.ok
    /\ Deadline.t <= now

\* Under C17_Pre the constructor goes through its checks to the
\* construction-time cancel with DeadlineExceeded, arming no timer.
C17_Ctor ==
    (C17_Pre /\ pc'[Ctor] # pc[Ctor]) =>
        /\ pc[Ctor] = "start" => pc'[Ctor] = "chkCar"
        /\ pc[Ctor] = "chkCar" => pc'[Ctor] = "chkCdr"
        /\ pc[Ctor] = "chkCdr" => pc'[Ctor] = "chkDl"
        /\ pc[Ctor] = "chkDl" =>
              /\ pc'[Ctor] = "cancel"
              /\ arg'[Ctor] = DeadlineExceeded
              /\ ~timerAt'.ok

\* The node returned from the construction-time cancel.
C17_Expired ==
    ret.site = "expired" =>
        /\ err = DeadlineExceeded
        /\ done = "closed"
        /\ pc[Watcher] = "none"
        /\ pc[Timer] = "none"
        /\ timer = "nil"
        /\ ~timerAt.ok

\* C17 as stated: when at construction neither parent is terminal, one is
\* cancelable and the deadline has passed, Cons and Union return a node that
\* is terminal with DeadlineExceeded and a closed done channel, without
\* watcher or timer, and trigger calls leave its error unchanged.
C17_Claim == [][C17_Ctor]_vars /\ []C17_Expired

\* C18 as stated: a node that Cons of src/constext.go returned live with a
\* deadline in the future has its deadline timer armed (or already firing)
\* for as long as it is live.
C18_Claim ==
    (variant = "cons" /\ ret.site = "watch" /\ Deadline.ok /\ err = Nil)
    => (timer = "set" \/ pc[Timer] # "none")

\* C19 as stated: for a node that Union returned with its watcher started,
\* whenever the node is terminal and its mutex is free, the timer handle is
\* nil.
C19_Claim ==
    (variant = "union" /\ Built /\ ret.site = "watch" /\ err # Nil /\ mu = Free)
    => timer = "nil"

\* Cons of src/constext.go with its watcher and one goroutine that calls
\* the CancelFunc, under fair scheduling.
NextOneCaller ==
    \/ Env
    \/ ConsStart
    \/ ConsCheckCar
    \/ ConsCheckCdr
    \/ ConsCheckDeadline
    \/ ConsSpawn
    \/ \E t \in Threads : CancelEnter(t)
    \/ \E t \in Threads : CancelStep(t)
    \/ \E i \in Parents : WatcherSelect(i)
    \/ TriggerCall(<<"caller", 1>>)

FairOneCaller == InitCons /\ [][NextOneCaller]_vars /\ Fairness

\* Cons has read parent i's Err() as nil: its test of that parent is behind
\* it and did not make it return.
ReadNil(i) ==
    IF i = 1
    THEN pc[Ctor] \notin {"start", "chkCar"} /\ ret.site \notin {"fast", "car"}
    ELSE pc[Ctor] \notin {"start", "chkCar", "chkCdr"}
         /\ ret.site \notin {"fast", "car", "cdr"}

\* The node is terminal; if Cons returned it with a watcher, its channel is
\* closed, and unless the trigger was called its error is a parent's.
C20_Goal ==
    /\ err # Nil
    /\ mu = Free
    /\ ret.site = "watch" =>
          /\ done = "closed"
          /\ ~triggered => \E j \in Parents : pErr[j] # Nil /\ err = pErr[j]

\* C20: a parent canceled after Cons (src/constext.go) has read its Err() as
\* nil, be it before the watcher is started or scheduled, is not lost: the
\* node becomes terminal, through the watcher with a canceled parent's error
\* unless something else terminated it first, and neither the watcher nor
\* anything else ever calls cancel with a nil error.
C20_NoLostCancel ==
    /\ (variant = "cons" /\ \E i \in Parents : ReadNil(i) /\ pErr[i] # Nil)
          ~> C20_Goal
    /\ [](pc[Watcher] = "cancel" => arg[Watcher] # Nil)
    /\ [](panicked # "missing cancel error")

\* Parent 2 was canceled after Cons had read its Err() and before the
\* watcher was started; the watcher has forwarded its error.
C20_Witness ==
    /\ variant = "cons"
    /\ ret.site = "watch"
    /\ ~ret.live
    /\ entryErr = Nil
    /\ OnlyCanceled(2)
    /\ ~triggered
    /\ err = pErr[2]
    /\ done = "closed"
    /\ pc[Watcher] = "exit"

====
